---- MODULE Spec2Model ----
\* A model of main.py, the terminal meditation timer: the menu loop, the four
\* session kinds, progress_bar, bell and log_session.
\*
\* Units.  time.time() and every duration in seconds are carried in tenths of
\* a second (0.5 s = 5, 1.2 s = 12).  Quantities in minutes (duration_min) are
\* carried in 1/600 of a minute (5 min = 3000, 7.5 min = 4500), so that the
\* fractional values the program handles (float minutes, total/60) are exact.
EXTENDS Integers, Sequences, FiniteSets, TLC

\* ---------------------------------------------------------------- bounds
\* The program is explored in two kinds of run (see Init): a quiet one, where
\* the clock advances only in time.sleep and in winsound.Beep and the user makes
\* up to MaxChoices menu choices, and a loaded one, where the process may also
\* stall while the start bell rings and a cue print may take time, with one
\* menu choice.  At the last choice of a run the user types any of the inputs
\* below; at an earlier one, nothing (the prompt's default), something that is
\* no number, or the longest custom duration.
MaxChoices == 2       \* menu choices read in a quiet run
MaxStall == 2         \* loaded run: the start bell stalls 0..MaxStall times StallDs
StallDs == 100        \* length of one stall, tenths of a second
MaxPrintDelay == 1    \* loaded run: tenths of a second one cue print may take
EpochDs == 10007      \* the user presses Enter at the next multiple of EpochDs
MaxCustom == 2        \* custom timer: the user enters -1..MaxCustom times CustomStep
CustomStep == 7       \* in 1/600 min: 7 is 0.7 s
MaxBodyHalf == 2      \* body scan: the user enters -3/2 .. MaxBodyHalf/2 minutes
MaxBox == 1           \* box breathing: each number entered is in 0..MaxBox

\* ------------------------------------------------------- program constants
bar_len == 30         \* progress_bar: bar_len = 30
TickSleep == 5        \* progress_bar: time.sleep(0.5)
BeepDs == 3           \* bell: winsound.Beep(440, 300), 300 ms
StartPause == 12      \* box_breathing, body_scan: time.sleep(1.2)
CountSleep == 10      \* box_breathing: time.sleep(1)
BoxDefault == 4       \* main_menu: input(...) or "4"
BodyDefault == 10     \* main_menu: input(...) or "10"

GUIDED_5 == << <<0, "Sit comfortably">>, <<8, "Close your eyes">>,
               <<20, "Follow your inhale">>, <<60, "If the mind wanders">>,
               <<120, "Feel the body">>, <<180, "Notice sounds">>,
               <<240, "Feel gratitude">> >>

GUIDED_10 == << <<0, "Make yourself comfortable">>, <<10, "Close your eyes">>,
                <<30, "Allow your breath">>, <<90, "Scan the body">>,
                <<180, "Focus on the rise and fall">>, <<300, "If thoughts appear">>,
                <<420, "Extend your out-breath">>, <<540, "Bring kindness">>,
                <<570, "When ready, wiggle">> >>

GUIDED_15 == << <<0, "Begin seated">>, <<12, "Take a deep inhalation">>,
                <<40, "Scan your body">>, <<120, "Now focus on breath">>,
                <<300, "If a thought grabs you">>, <<480, "Stay with a gentle attention">>,
                <<660, "Offer a short gratitude">>, <<840, "Slowly deepen your breath">>,
                <<880, "When ready, open your eyes">> >>

\* A script with no cues; guided_session takes any list of (offset, text).
NO_CUES == << >>

\* The script a frame names (frames carry the name, not the list).
ScriptOf(name) ==
  CASE name = "GUIDED_5" -> GUIDED_5
    [] name = "GUIDED_10" -> GUIDED_10
    [] name = "GUIDED_15" -> GUIDED_15
    [] name = "NO_CUES" -> NO_CUES

\* ------------------------------------------------------------- arithmetic
\* n whole minutes, in 1/600 of a minute.
Minutes(n) == n * 600

\* duration_min * 60: minutes (1/600) to seconds (tenths).
MinToSec(m) == (m * 60 * 10) \div 600

\* seconds / 60: whole seconds to minutes (1/600).
SecToMin(sec) == (sec * 600) \div 60

\* script[i][0], the offset of the cue at 0-based index i, in tenths of a second.
OffsetDs(name, i) == ScriptOf(name)[i + 1][1] * 10

\* Python's int(x) on a float number of minutes: truncation toward zero.
IntTrunc(m) == IF m >= 0 THEN m \div 600 ELSE -((-m) \div 600)

Max(a, b) == IF a >= b THEN a ELSE b

\* ------------------------------------------------------------------ state
VARIABLES
  pc,        \* where the program is
  now,       \* time.time(), tenths of a second
  osname,    \* os.name
  logFile,   \* meditation_log.csv: [exists, lines]
  fr,        \* locals of the session function that is running
  pb,        \* locals of the progress_bar call that is running
  line,      \* the progress line on the terminal
  events,    \* what the current session has put out, in order
  choices,   \* menu choices read so far
  completed, \* sessions that reached log_session in this run of the program
  logAtInit, \* the log file when the program started
  logAtStart, \* the log file when the current session started
  env        \* what the surroundings may do in this run: [choices, stall, delay]

vars == <<pc, now, osname, logFile, fr, pb, line, events, choices, completed,
          logAtInit, logAtStart, env>>

NoFrame == [fn |-> "none"]
NoCall == [active |-> FALSE]
Blank == [kind |-> "blank"]

\* One thing the program put out: a message, a redraw of the line, ...
Ev(name) == [e |-> name]

\* bell() returned at time t.
Rang(t) == [e |-> "bell", at |-> t]

Header == <<"timestamp", "type", "duration_min", "notes">>

\* A log file an earlier run of the program left behind.
OldLog == [exists |-> TRUE,
           lines |-> <<Header, [timestamp |-> 0, type |-> <<"Custom timer">>,
                                duration_min |-> 600, notes |-> ""] >>]

AbsentLog == [exists |-> FALSE, lines |-> <<>>]

Quiet == [choices |-> MaxChoices, stall |-> 0, delay |-> 0]
Loaded == [choices |-> 1, stall |-> MaxStall, delay |-> MaxPrintDelay]

Init ==
  /\ pc = "menu"
  /\ now = 0
  /\ osname \in {"nt", "posix"}
  /\ logFile \in {AbsentLog, OldLog}
  /\ fr = NoFrame
  /\ pb = NoCall
  /\ line = Blank
  /\ events = <<>>
  /\ choices = 0
  /\ completed = 0
  /\ logAtInit = logFile
  /\ logAtStart = logFile
  /\ env \in {Quiet, Loaded}

\* ---------------------------------------------------------------- helpers
\* bell(): winsound.Beep blocks for 300 ms on Windows, the terminal bell does not.
BellTime(os) == IF os = "nt" THEN BeepDs ELSE 0

\* log_session, were the header written at every call.
log_session_HeaderAlways(f, kind, duration_min, t) ==
  LET row == [timestamp |-> t \div 10, type |-> kind,
              duration_min |-> duration_min, notes |-> ""]
  IN  [exists |-> TRUE, lines |-> f.lines \o <<Header, row>>]

\* log_session(kind, duration_min): the file after the call.
log_session(f, kind, duration_min, t) ==
  LET row == [timestamp |-> t \div 10, type |-> kind,
              duration_min |-> duration_min, notes |-> ""]
  IN  [exists |-> TRUE,
       lines |-> (IF f.exists THEN f.lines ELSE <<Header>>) \o <<row>>]

\* Filled, were the product rounded to the nearest slot.
Filled_Rounded(elapsed, total) == (2 * elapsed * bar_len + total) \div (2 * total)

\* int(percent * bar_len), percent = elapsed / total_seconds.
Filled(elapsed, total) == (elapsed * bar_len) \div total

\* "[" + "#" * filled + "-" * (bar_len - filled) + "]", without the brackets.
Bar(filled) ==
  [k \in 1..(filled + (bar_len - filled)) |-> IF k <= filled THEN "#" ELSE "-"]

\* SecsLeft, were the seconds rounded to the nearest second.
SecsLeft_Rounded(elapsed, total) == (((total - elapsed) % 600) + 5) \div 10

\* int((total_seconds - elapsed) // 60) and int((total_seconds - elapsed) % 60).
MinsLeft(elapsed, total) == (total - elapsed) \div 600
SecsLeft(elapsed, total) == ((total - elapsed) % 600) \div 10

\* The user presses Enter: the clock is then at the next multiple of EpochDs.
AfterPrompt(t) == (t \div EpochDs + 1) * EpochDs

\* ------------------------------------------------------------ progress_bar
\* A call of progress_bar(total_seconds, prefix) that returns to position ret.
Call(total, prefix, ret) ==
  [active |-> TRUE, total_seconds |-> total, start |-> now, prefix |-> prefix,
   ret |-> ret]

\* PB_Draw, were the loop to go round without sleeping.
PB_Draw_NoSleep ==
  /\ pc = "progress_bar"
  /\ LET elapsed == now - pb.start
     IN  /\ ~(elapsed >= pb.total_seconds)
         /\ line' = [kind |-> "bar", prefix |-> pb.prefix,
                     bar |-> Bar(Filled(elapsed, pb.total_seconds)),
                     mins |-> MinsLeft(elapsed, pb.total_seconds),
                     secs |-> SecsLeft(elapsed, pb.total_seconds),
                     elapsed |-> elapsed, total |-> pb.total_seconds]
  /\ events' = IF events # <<>> /\ events[Len(events)].e = "draw"
               THEN events ELSE Append(events, Ev("draw"))
  /\ UNCHANGED <<pc, now, osname, logFile, fr, pb, choices, completed, logAtInit,
                 logAtStart, env>>

\* One iteration that draws: elapsed < total_seconds; draw, then sleep 0.5 s.
PB_Draw ==
  /\ pc = "progress_bar"
  /\ LET elapsed == now - pb.start
     IN  /\ ~(elapsed >= pb.total_seconds)
         /\ line' = [kind |-> "bar", prefix |-> pb.prefix,
                     bar |-> Bar(Filled(elapsed, pb.total_seconds)),
                     mins |-> MinsLeft(elapsed, pb.total_seconds),
                     secs |-> SecsLeft(elapsed, pb.total_seconds),
                     elapsed |-> elapsed, total |-> pb.total_seconds]
  /\ events' = IF events # <<>> /\ events[Len(events)].e = "draw"
               THEN events ELSE Append(events, Ev("draw"))
  /\ now' = now + TickSleep
  /\ UNCHANGED <<pc, osname, logFile, fr, pb, choices, completed, logAtInit, logAtStart, env>>

\* PB_Exit, were the loop to break one sleep before total_seconds.
PB_Exit_Early ==
  /\ pc = "progress_bar"
  /\ now - pb.start + TickSleep >= pb.total_seconds
  /\ line' = Blank
  /\ events' = Append(events, Ev("clear"))
  /\ pc' = pb.ret
  /\ pb' = NoCall
  /\ UNCHANGED <<now, osname, logFile, fr, choices, completed, logAtInit, logAtStart, env>>

\* PB_Exit, were the line left as it was drawn.
PB_Exit_NoClear ==
  /\ pc = "progress_bar"
  /\ now - pb.start >= pb.total_seconds
  /\ pc' = pb.ret
  /\ pb' = NoCall
  /\ UNCHANGED <<now, osname, logFile, fr, line, events, choices, completed,
                 logAtInit, logAtStart, env>>

\* The iteration that breaks: elapsed >= total_seconds; clear the line, return.
PB_Exit ==
  /\ pc = "progress_bar"
  /\ now - pb.start >= pb.total_seconds
  /\ line' = Blank
  /\ events' = Append(events, Ev("clear"))
  /\ pc' = pb.ret
  /\ pb' = NoCall
  /\ UNCHANGED <<now, osname, logFile, fr, choices, completed, logAtInit, logAtStart, env>>

\* ---------------------------------------------------------- guided_session
\* main_menu, choices 1, 2, 3: guided_session(script, duration_min) up to start_time.
StartGuided(name, mins) ==
  /\ pc = "menu"
  /\ choices < env.choices
  /\ choices' = choices + 1
  /\ now' = now
  /\ fr' = [fn |-> "guided_session", script |-> name, duration_min |-> Minutes(mins),
            total_seconds |-> MinToSec(Minutes(mins)), start_time |-> now',
            i |-> 0, elapsed |-> 0]
  /\ pc' = "g_bell"
  /\ events' = <<>>
  /\ logAtStart' = logFile
  /\ UNCHANGED <<osname, logFile, pb, line, completed, logAtInit, env>>

\* The start bell; the process may stall while it rings.
G_Bell ==
  /\ pc = "g_bell"
  /\ \E k \in 0..env.stall : now' = now + BellTime(osname) + k * StallDs
  /\ events' = Append(events, Rang(now'))
  /\ pc' = "g_loop"
  /\ UNCHANGED <<osname, logFile, fr, pb, line, choices, completed, logAtInit, logAtStart, env>>

\* Top of the while loop: elapsed = time.time() - start_time, and the break.
G_Tick ==
  /\ pc = "g_loop"
  /\ LET elapsed == now - fr.start_time
     IN  /\ fr' = [fr EXCEPT !.elapsed = elapsed]
         /\ pc' = IF elapsed >= fr.total_seconds THEN "g_end" ELSE "g_cues"
  /\ UNCHANGED <<now, osname, logFile, pb, line, events, choices, completed,
                 logAtInit, logAtStart, env>>

\* Due, were the loop to test the cursor alone.
Due_IgnoresClock(f) == f.i < Len(ScriptOf(f.script))

\* The inner loop's condition: i < len(script) and elapsed >= script[i][0].
Due(f) == f.i < Len(ScriptOf(f.script)) /\ f.elapsed >= OffsetDs(f.script, f.i)

\* The inner while loop, one cue: print script[i][1]; i += 1.
G_Cue ==
  /\ pc = "g_cues"
  /\ Due(fr)
  /\ events' = Append(events, [e |-> "cue", i |-> fr.i, at |-> fr.elapsed])
  /\ fr' = [fr EXCEPT !.i = fr.i + 1]
  /\ \E d \in 0..env.delay : now' = now + d
  /\ UNCHANGED <<pc, osname, logFile, pb, line, choices, completed, logAtInit, logAtStart, env>>

\* The inner loop is over: remaining = max(0, total_seconds - elapsed); progress_bar(remaining).
G_Progress ==
  /\ pc = "g_cues"
  /\ ~Due(fr)
  /\ pb' = Call(Max(0, fr.total_seconds - fr.elapsed), "Guided:", "g_loop")
  /\ pc' = "progress_bar"
  /\ UNCHANGED <<now, osname, logFile, fr, line, events, choices, completed,
                 logAtInit, logAtStart, env>>

\* bell() after the session's loop, at position at.
EndBell(at, next) ==
  /\ pc = at
  /\ now' = now + BellTime(osname)
  /\ events' = Append(events, Rang(now'))
  /\ pc' = next
  /\ UNCHANGED <<osname, logFile, fr, pb, line, choices, completed, logAtInit, logAtStart, env>>

\* The completion message printed after the end bell.
Msg(at, next) ==
  /\ pc = at
  /\ events' = Append(events, Ev("msg"))
  /\ pc' = next
  /\ UNCHANGED <<now, osname, logFile, fr, pb, line, choices, completed, logAtInit, logAtStart, env>>

\* The call of log_session(kind, duration_min) that ends a session.
Log(at, next, kind, duration_min) ==
  /\ pc = at
  /\ logFile' = log_session(logFile, kind, duration_min, now)
  /\ events' = Append(events, Ev("log"))
  /\ completed' = completed + 1
  /\ pc' = next
  /\ UNCHANGED <<now, osname, fr, pb, line, choices, logAtInit, logAtStart, env>>

\* G_EndBell, were guided_session to end without a bell.
G_EndBell_Silent ==
  /\ pc = "g_end"
  /\ pc' = "g_msg"
  /\ UNCHANGED <<now, osname, logFile, fr, pb, line, events, choices, completed,
                 logAtInit, logAtStart, env>>

G_EndBell == EndBell("g_end", "g_msg")

G_Msg == Msg("g_msg", "g_log")

\* G_Log, were it to pass the seconds where the minutes belong.
G_Log_Seconds ==
  Log("g_log", "g_input", <<"Guided", fr.duration_min, "min">>,
      Minutes(fr.total_seconds \div 10))

\* log_session(f"Guided {duration_min} min", duration_min).
G_Log == Log("g_log", "g_input", <<"Guided", fr.duration_min, "min">>, fr.duration_min)

\* ------------------------------------------------------------ custom_timer
\* What the user types at a prompt: nothing, something that is no number, or a number.
Typed(v) == [text |-> "number", v |-> v]
Empty == [text |-> ""]
Garbage == [text |-> "abc"]

\* float(input(...)) / int(input(...)): ValueError unless the text is a number.
Parses(inp) == inp.text = "number"

\* main_menu, choice 4: float(input(...)); mins <= 0 raises ValueError; custom_timer(mins)
\* up to the title line.
Menu4(inp) ==
  /\ pc = "menu"
  /\ choices < env.choices
  /\ choices' = choices + 1
  /\ now' = now
  /\ logAtStart' = logFile
  /\ IF ~Parses(inp) \/ inp.v <= 0
     THEN /\ pc' = "invalid"
          /\ events' = <<Ev("invalid")>>
          /\ fr' = NoFrame
     ELSE /\ pc' = "c_bell"
          /\ events' = <<Ev("title")>>
          /\ fr' = [fn |-> "custom_timer", duration_min |-> inp.v,
                    total_seconds |-> MinToSec(inp.v)]
  /\ UNCHANGED <<osname, logFile, pb, line, completed, logAtInit, env>>

\* bell() before the countdown.
C_Bell ==
  /\ pc = "c_bell"
  /\ now' = now + BellTime(osname)
  /\ events' = Append(events, Rang(now'))
  /\ pc' = "c_progress"
  /\ UNCHANGED <<osname, logFile, fr, pb, line, choices, completed, logAtInit, logAtStart, env>>

\* progress_bar(duration_min * 60, prefix="Timer:").
C_Progress ==
  /\ pc = "c_progress"
  /\ pb' = Call(MinToSec(fr.duration_min), "Timer:", "c_end")
  /\ pc' = "progress_bar"
  /\ UNCHANGED <<now, osname, logFile, fr, line, events, choices, completed,
                 logAtInit, logAtStart, env>>

C_EndBell == EndBell("c_end", "c_msg")

C_Msg == Msg("c_msg", "c_log")

\* log_session("Custom timer", duration_min).
C_Log == Log("c_log", "c_input", <<"Custom timer">>, fr.duration_min)

\* --------------------------------------------------------------- body_scan
NumParts == 10

\* main_menu, choice 6: float(input(...) or "10"); body_scan(int(mins)) up to per_part.
Menu6(inp) ==
  /\ pc = "menu"
  /\ choices < env.choices
  /\ choices' = choices + 1
  /\ logAtStart' = logFile
  /\ IF inp # Empty /\ ~Parses(inp)
     THEN /\ pc' = "invalid"
          /\ events' = <<Ev("invalid")>>
          /\ fr' = NoFrame
          /\ now' = now + StartPause
     ELSE LET mins == IF inp = Empty THEN Minutes(BodyDefault) ELSE inp.v
              duration_min == Minutes(IntTrunc(mins))
              total_seconds == MinToSec(duration_min)
          IN  /\ pc' = "s_bell"
              /\ events' = <<>>
              /\ fr' = [fn |-> "body_scan", duration_min |-> duration_min,
                        total_seconds |-> total_seconds,
                        per_part |-> total_seconds \div NumParts, idx |-> 0]
              /\ now' = now
  /\ UNCHANGED <<osname, logFile, pb, line, completed, logAtInit, env>>

\* bell(); the title line; time.sleep(1.2).
S_Bell ==
  /\ pc = "s_bell"
  /\ now' = now + BellTime(osname) + StartPause
  /\ events' = events \o <<Rang(now + BellTime(osname)), Ev("title")>>
  /\ pc' = "s_for"
  /\ UNCHANGED <<osname, logFile, fr, pb, line, choices, completed, logAtInit, logAtStart, env>>

\* S_Part, were each part given half its share of the time.
S_Part_HalfShare ==
  /\ pc = "s_for"
  /\ fr.idx < NumParts
  /\ fr' = [fr EXCEPT !.idx = fr.idx + 1]
  /\ events' = Append(events, [e |-> "focus", idx |-> fr.idx + 1, at |-> now])
  /\ pb' = Call(fr.per_part \div 2, "Part", "s_for")
  /\ pc' = "progress_bar"
  /\ UNCHANGED <<now, osname, logFile, line, choices, completed, logAtInit, logAtStart, env>>

\* One pass of the for loop: print the focus line, progress_bar(per_part).
S_Part ==
  /\ pc = "s_for"
  /\ fr.idx < NumParts
  /\ fr' = [fr EXCEPT !.idx = fr.idx + 1]
  /\ events' = Append(events, [e |-> "focus", idx |-> fr.idx + 1, at |-> now])
  /\ pb' = Call(fr.per_part, "Part", "s_for")
  /\ pc' = "progress_bar"
  /\ UNCHANGED <<now, osname, logFile, line, choices, completed, logAtInit, logAtStart, env>>

\* The for loop is exhausted.
S_Done ==
  /\ pc = "s_for"
  /\ ~(fr.idx < NumParts)
  /\ pc' = "s_end"
  /\ UNCHANGED <<now, osname, logFile, fr, pb, line, events, choices, completed,
                 logAtInit, logAtStart, env>>

S_EndBell == EndBell("s_end", "s_msg")

S_Msg == Msg("s_msg", "s_log")

\* log_session(f"Body-scan {duration_min} min", duration_min).
S_Log == Log("s_log", "s_input", <<"Body-scan", fr.duration_min, "min">>, fr.duration_min)

\* ----------------------------------------------------------- box_breathing
\* main_menu, choice 5: the four prompts follow.
Menu5 ==
  /\ pc = "menu"
  /\ choices < env.choices
  /\ choices' = choices + 1
  /\ now' = now
  /\ logAtStart' = logFile
  /\ pc' = "m5_input"
  /\ events' = <<>>
  /\ fr' = [fn |-> "main_menu", got |-> <<>>]
  /\ UNCHANGED <<osname, logFile, pb, line, completed, logAtInit, env>>

\* One of int(input(...) or "4"); after the fourth, box_breathing(...) up to its header.
BoxInput(inp) ==
  /\ pc = "m5_input"
  /\ IF inp # Empty /\ ~Parses(inp)
     THEN /\ pc' = "invalid"
          /\ events' = <<Ev("invalid")>>
          /\ fr' = NoFrame
          /\ now' = now + StartPause
     ELSE LET got == Append(fr.got, IF inp = Empty THEN BoxDefault ELSE inp.v)
          IN  /\ now' = now
              /\ IF Len(got) < 4
                 THEN /\ fr' = [fr EXCEPT !.got = got]
                      /\ UNCHANGED <<pc, events>>
                 ELSE /\ fr' = [fn |-> "box_breathing", cycles |-> got[1],
                                inhale |-> got[2], hold |-> got[3], exhale |-> got[4],
                                c |-> 0, phase |-> 0, t |-> 0]
                      /\ events' = <<Ev("title")>>
                      /\ pc' = "b_bell"
  /\ UNCHANGED <<osname, logFile, pb, line, choices, completed, logAtInit, logAtStart, env>>

\* bell(); time.sleep(1.2).
B_Bell ==
  /\ pc = "b_bell"
  /\ now' = now + BellTime(osname) + StartPause
  /\ events' = Append(events, Rang(now + BellTime(osname)))
  /\ pc' = "b_for"
  /\ UNCHANGED <<osname, logFile, fr, pb, line, choices, completed, logAtInit, logAtStart, env>>

\* PhaseSeconds, were the hold after the exhale to last as long as the exhale.
PhaseSeconds_ExhaleTwice(f, ph) ==
  CASE ph = 1 -> f.inhale
    [] ph = 2 -> f.hold
    [] ph = 3 -> f.exhale
    [] ph = 4 -> f.exhale

\* The seconds of phase ph: inhale, hold, exhale, hold.
PhaseSeconds(f, ph) ==
  CASE ph = 1 -> f.inhale
    [] ph = 2 -> f.hold
    [] ph = 3 -> f.exhale
    [] ph = 4 -> f.hold

\* B_Cycle, were a bell to mark each cycle.
B_Cycle_Bell ==
  /\ pc = "b_for"
  /\ fr.c + 1 < fr.cycles + 1
  /\ fr' = [fr EXCEPT !.c = fr.c + 1, !.phase = 1, !.t = PhaseSeconds(fr, 1)]
  /\ events' = events \o <<Rang(now), [e |-> "cycle", c |-> fr.c + 1]>>
  /\ pc' = "b_phase"
  /\ UNCHANGED <<now, osname, logFile, pb, line, choices, completed, logAtInit, logAtStart, env>>

\* for c in range(1, cycles + 1): the next cycle starts with its header and Inhale.
B_Cycle ==
  /\ pc = "b_for"
  /\ fr.c + 1 < fr.cycles + 1
  /\ fr' = [fr EXCEPT !.c = fr.c + 1, !.phase = 1, !.t = PhaseSeconds(fr, 1)]
  /\ events' = Append(events, [e |-> "cycle", c |-> fr.c + 1])
  /\ pc' = "b_phase"
  /\ UNCHANGED <<now, osname, logFile, pb, line, choices, completed, logAtInit, logAtStart, env>>

\* for t in range(n, 0, -1): write the count, time.sleep(1).
B_Count ==
  /\ pc = "b_phase"
  /\ fr.t > 0
  /\ events' = Append(events, [e |-> "count", phase |-> fr.phase, t |-> fr.t])
  /\ now' = now + CountSleep
  /\ fr' = [fr EXCEPT !.t = fr.t - 1]
  /\ UNCHANGED <<pc, osname, logFile, pb, line, choices, completed, logAtInit, logAtStart, env>>

\* B_Phase, were the hold after the exhale left out.
B_Phase_SkipsHold ==
  /\ pc = "b_phase"
  /\ ~(fr.t > 0)
  /\ IF fr.phase < 3
     THEN /\ fr' = [fr EXCEPT !.phase = fr.phase + 1, !.t = PhaseSeconds(fr, fr.phase + 1)]
          /\ pc' = pc
     ELSE /\ fr' = fr
          /\ pc' = "b_for"
  /\ UNCHANGED <<now, osname, logFile, pb, line, events, choices, completed,
                 logAtInit, logAtStart, env>>

\* A phase's range is exhausted: the next phase, or print() and the next cycle.
B_Phase ==
  /\ pc = "b_phase"
  /\ ~(fr.t > 0)
  /\ IF fr.phase < 4
     THEN /\ fr' = [fr EXCEPT !.phase = fr.phase + 1, !.t = PhaseSeconds(fr, fr.phase + 1)]
          /\ pc' = pc
     ELSE /\ fr' = fr
          /\ pc' = "b_for"
  /\ UNCHANGED <<now, osname, logFile, pb, line, events, choices, completed,
                 logAtInit, logAtStart, env>>

\* range(1, cycles + 1) is exhausted.
B_Done ==
  /\ pc = "b_for"
  /\ ~(fr.c + 1 < fr.cycles + 1)
  /\ pc' = "b_end"
  /\ UNCHANGED <<now, osname, logFile, fr, pb, line, events, choices, completed,
                 logAtInit, logAtStart, env>>

B_EndBell == EndBell("b_end", "b_msg")

B_Msg == Msg("b_msg", "b_log")

\* log_session("Box breathing", cycles * (inhale + hold + exhale + hold) / 60).
B_Log ==
  Log("b_log", "b_input", <<"Box breathing">>,
      SecToMin(fr.cycles * (fr.inhale + fr.hold + fr.exhale + fr.hold)))

\* --------------------------------------------------------------- main_menu
\* Choice 7, show_log(), and any unknown choice: a message, nothing else.
MenuOther(what) ==
  /\ pc = "menu"
  /\ choices < env.choices
  /\ choices' = choices + 1
  /\ now' = now
  /\ logAtStart' = logFile
  /\ pc' = "invalid"
  /\ events' = <<Ev(what)>>
  /\ UNCHANGED <<osname, logFile, fr, pb, line, completed, logAtInit, env>>

\* Choice 0: the goodbye line, break; main_menu returns and the program ends.
Menu0 ==
  /\ pc = "menu"
  /\ pc' = "exit"
  /\ events' = <<Ev("goodbye")>>
  /\ UNCHANGED <<now, osname, logFile, fr, pb, line, choices, completed, logAtInit, logAtStart, env>>

\* input("Press Enter to return to menu...") at the end of a session, or the wait
\* after a message: back to the top of main_menu's loop.
Return ==
  /\ pc \in {"g_input", "c_input", "s_input", "b_input", "invalid"}
  /\ pc' = "menu"
  /\ fr' = NoFrame
  /\ events' = <<>>
  /\ now' = AfterPrompt(now)
  /\ UNCHANGED <<osname, logFile, pb, line, choices, completed, logAtInit, logAtStart, env>>

\* Interrupt, were KeyboardInterrupt caught inside main_menu's loop.
Interrupt_Resumes ==
  /\ pc # "exit"
  /\ pc' = "menu"
  /\ events' = Append(events, Ev("farewell"))
  /\ fr' = NoFrame
  /\ pb' = NoCall
  /\ UNCHANGED <<now, osname, logFile, line, choices, completed, logAtInit, logAtStart, env>>

\* Ctrl-C anywhere inside main_menu(): KeyboardInterrupt unwinds to the except
\* clause at the bottom of the file, which prints a line; the program ends.
Interrupt ==
  /\ pc # "exit"
  /\ pc' = "exit"
  /\ events' = Append(events, Ev("farewell"))
  /\ fr' = NoFrame
  /\ pb' = NoCall
  /\ UNCHANGED <<now, osname, logFile, line, choices, completed, logAtInit, logAtStart, env>>

\* ------------------------------------------------------------------ inputs
\* The menu choice numbered n is the last one of this run.
LastChoice(n) == n >= env.choices

CustomInputs(n) ==
  IF LastChoice(n)
  THEN {Garbage} \cup {Typed(v * CustomStep) : v \in -1..MaxCustom}
  ELSE {Garbage, Typed(MaxCustom * CustomStep)}

BodyInputs(n) ==
  IF LastChoice(n)
  THEN {Garbage, Empty} \cup {Typed(h * 300) : h \in -3..MaxBodyHalf}
  ELSE {Garbage, Empty}

BoxInputs(n) ==
  IF LastChoice(n)
  THEN {Garbage, Empty} \cup {Typed(v) : v \in 0..MaxBox}
  ELSE {Garbage, Empty}

Next ==
  \/ StartGuided("GUIDED_5", 5)
  \/ StartGuided("GUIDED_10", 10)
  \/ StartGuided("GUIDED_15", 15)
  \/ G_Bell
  \/ G_Tick
  \/ G_Cue
  \/ G_Progress
  \/ PB_Draw
  \/ PB_Exit
  \/ G_EndBell
  \/ G_Msg
  \/ G_Log
  \/ \E inp \in CustomInputs(choices + 1) : Menu4(inp)
  \/ C_Bell
  \/ C_Progress
  \/ C_EndBell
  \/ C_Msg
  \/ C_Log
  \/ \E inp \in BodyInputs(choices + 1) : Menu6(inp)
  \/ S_Bell
  \/ S_Part
  \/ S_Done
  \/ S_EndBell
  \/ S_Msg
  \/ S_Log
  \/ Menu5
  \/ \E inp \in BoxInputs(choices) : BoxInput(inp)
  \/ B_Bell
  \/ B_Cycle
  \/ B_Count
  \/ B_Phase
  \/ B_Done
  \/ B_EndBell
  \/ B_Msg
  \/ B_Log
  \/ MenuOther("log shown")
  \/ MenuOther("unknown choice")
  \/ Menu0
  \/ Return
  \/ Interrupt

Spec == Init /\ [][Next]_vars

\* ------------------------------------------------- a run nobody interrupts
\* The statements of the session functions and of progress_bar: everything but
\* the reading of input. The interpreter runs the next statement, and
\* time.sleep and winsound.Beep return.
SessionStep ==
  \/ G_Bell \/ G_Tick \/ G_Cue \/ G_Progress \/ PB_Draw \/ PB_Exit
  \/ G_EndBell \/ G_Msg \/ G_Log
  \/ C_Bell \/ C_Progress \/ C_EndBell \/ C_Msg \/ C_Log
  \/ S_Bell \/ S_Part \/ S_Done \/ S_EndBell \/ S_Msg \/ S_Log
  \/ B_Bell \/ B_Cycle \/ B_Count \/ B_Phase \/ B_Done \/ B_EndBell \/ B_Msg \/ B_Log

\* What the user does, Ctrl-C apart.
UserStep ==
  \/ StartGuided("GUIDED_5", 5)
  \/ StartGuided("GUIDED_10", 10)
  \/ StartGuided("GUIDED_15", 15)
  \/ \E inp \in CustomInputs(choices + 1) : Menu4(inp)
  \/ \E inp \in BodyInputs(choices + 1) : Menu6(inp)
  \/ Menu5
  \/ \E inp \in BoxInputs(choices) : BoxInput(inp)
  \/ MenuOther("log shown")
  \/ MenuOther("unknown choice")
  \/ Menu0
  \/ Return

NextRun == SessionStep \/ UserStep

\* One menu choice, the start bell and the prints taking any of the times of a
\* loaded run, none included: a session depends on nothing an earlier one did.
InitRun == Init /\ env = Loaded

\* The program left to run: a statement that can run does run.
SpecRun == InitRun /\ [][NextRun]_vars /\ WF_vars(SessionStep)

\* ------------------------------------------- the timer functions on their own
\* guided_session and custom_timer called with arguments main_menu does not
\* pass: a script with no cues, and the same short durations for both.
CallDurations == {d * CustomStep : d \in 1..MaxCustom}

\* guided_session(script, duration_min) up to start_time = time.time().
CallGuided(name, duration_min) ==
  /\ pc = "menu"
  /\ choices < env.choices
  /\ choices' = choices + 1
  /\ now' = now
  /\ fr' = [fn |-> "guided_session", script |-> name, duration_min |-> duration_min,
            total_seconds |-> MinToSec(duration_min), start_time |-> now',
            i |-> 0, elapsed |-> 0]
  /\ pc' = "g_bell"
  /\ events' = <<>>
  /\ logAtStart' = logFile
  /\ UNCHANGED <<osname, logFile, pb, line, completed, logAtInit, env>>

NextCalls ==
  \/ \E d \in CallDurations : CallGuided("NO_CUES", d)
  \/ G_Bell
  \/ G_Tick
  \/ G_Progress
  \/ PB_Draw
  \/ PB_Exit
  \/ G_EndBell
  \/ G_Msg
  \/ G_Log
  \/ \E d \in CallDurations : Menu4(Typed(d))
  \/ C_Bell
  \/ C_Progress
  \/ C_EndBell
  \/ C_Msg
  \/ C_Log
  \/ Return

SpecCalls == Init /\ [][NextCalls]_vars

\* ================================================================ properties
\* The cue events of the current session, in the order they were put out.
Cues == SelectSeq(events, LAMBDA x : x.e = "cue")

\* The events of the current session named name.
Where(name) == {n \in DOMAIN events : events[n].e = name}

\* The data rows of a log file (the header is not one).
Rows(f) == IF f.exists THEN Len(f.lines) - 1 ELSE 0

\* C1: when the loop of a guided session has ended, every cue whose offset is
\* below the session's total duration has been put out exactly once, at a tick
\* whose elapsed time had reached its offset.
C1_EveryCueEmitted ==
  (fr.fn = "guided_session" /\ pc = "g_end") =>
    \A j \in 0..(Len(ScriptOf(fr.script)) - 1) :
      OffsetDs(fr.script, j) < fr.total_seconds =>
        /\ Cardinality({n \in Where("cue") : events[n].i = j}) = 1
        /\ \A n \in Where("cue") :
             events[n].i = j => events[n].at >= OffsetDs(fr.script, j)

\* C2: at every point of a guided session the cues put out so far are the first
\* i cues of the script, in script order and each once, the cursor i is within
\* 0..len(script), and each cue was put out at a tick whose elapsed time had
\* reached its offset; no step of a session decreases the cursor.
C2_CuesArePrefix ==
  /\ [](fr.fn = "guided_session" =>
          /\ fr.i \in 0..Len(ScriptOf(fr.script))
          /\ Len(Cues) = fr.i
          /\ \A n \in 1..Len(Cues) :
               /\ Cues[n].i = n - 1
               /\ Cues[n].at >= OffsetDs(fr.script, n - 1))
  /\ [][(fr.fn = "guided_session" /\ fr'.fn = "guided_session") => fr'.i >= fr.i]_vars

\* C2, its case: one tick whose elapsed time had jumped past three offsets.
C2_Witness ==
  /\ fr.fn = "guided_session"
  /\ pc = "progress_bar"
  /\ fr.i >= 3
  /\ \A n \in 1..3 : Cues[n].at = fr.elapsed

\* C3: the rows appended since the program started are as many as the sessions
\* that completed; a guided session that has completed appended one row, whose
\* duration_min is the configured seconds / 60 and whose timestamp is not
\* before start_time.
C3_OneRecordPerSession ==
  /\ Rows(logFile) - Rows(logAtInit) = completed
  /\ pc = "g_input" =>
       LET row == logFile.lines[Len(logFile.lines)]
       IN  /\ Rows(logFile) = Rows(logAtStart) + 1
           /\ row.duration_min * 60 * 10 = fr.total_seconds * 600
           /\ row.timestamp * 10 >= fr.start_time

\* C3, its case: a guided session completed after an earlier session of this
\* run had completed, the log file having existed before the program started.
C3_Witness ==
  /\ pc = "g_input"
  /\ completed = 2
  /\ logAtInit.exists

\* The session was interrupted after its start bell and before its end bell.
InterruptedMidSession ==
  /\ Where("farewell") # {}
  /\ Cardinality(Where("bell")) = 1

\* C4: once a session has been interrupted between its start bell and its end
\* bell, the log file is what it was when the session started, the closing
\* line has been printed once and the program has ended; the program takes no
\* step after it has ended.
C4_InterruptAborts ==
  /\ [](InterruptedMidSession =>
          /\ pc = "exit"
          /\ logFile = logAtStart
          /\ Cardinality(Where("farewell")) = 1)
  /\ [][pc # "exit"]_vars

\* C4, its case: the first session of a run was interrupted at a redraw of the
\* countdown, the log file existing and another menu choice remaining.
C4_Witness ==
  /\ pc = "exit"
  /\ InterruptedMidSession
  /\ line.kind = "bar"
  /\ events[Len(events) - 1].e = "draw"
  /\ logAtStart.exists
  /\ choices < env.choices

\* The prompts and countdown ticks of the current session.
Ticks == {n \in DOMAIN events : events[n].e \in {"cue", "focus", "draw", "cycle", "count"}}

\* The session function has reached its final input(): the run is complete.
RunComplete == pc \in {"g_input", "c_input", "s_input", "b_input"}

\* C5: a session rings at most two bells; every prompt and every countdown tick
\* comes after the first and, once the second has rung, before the second; a
\* complete run of any of the four kinds has rung exactly two.
C5_TwoBells ==
  LET B == Where("bell")
  IN  /\ Cardinality(B) <= 2
      /\ \A n \in Ticks : \E b \in B : b < n
      /\ Cardinality(B) = 2 => \A n \in Ticks : \E b \in B : n < b
      /\ RunComplete => Cardinality(B) = 2

\* C5, its case: a complete box-breathing run of several cycles that counted.
C5_Witness ==
  /\ pc = "b_input"
  /\ Cardinality(Where("cycle")) >= 2
  /\ Where("count") # {}

\* The loop of a guided or custom-timer session is over.
TimerOver ==
  \/ fr.fn = "guided_session" /\ pc \in {"g_end", "g_msg", "g_log", "g_input"}
  \/ fr.fn = "custom_timer" /\ pc \in {"c_end", "c_msg", "c_log", "c_input"}

\* When the current session started: start_time, or the return of the start bell.
StartedAt ==
  IF fr.fn = "guided_session" THEN fr.start_time
  ELSE events[CHOOSE b \in Where("bell") : \A c \in Where("bell") : b <= c].at

\* The clock of this run advances in time.sleep alone.
SleepOnlyClock == env = Quiet /\ osname = "posix"

\* C6: when the loop of a guided or custom-timer session is over, at least the
\* total duration has passed since the session started, and, where the clock
\* advances in time.sleep alone, less than the total duration plus one 0.5 s sleep.
C6_NeverEarly ==
  TimerOver =>
    /\ now - StartedAt >= fr.total_seconds
    /\ SleepOnlyClock => now - StartedAt < fr.total_seconds + 5

\* C6, its case: a custom timer whose duration is no multiple of the sleep
\* ended past its duration, under a clock that advances in time.sleep alone.
C6_Witness ==
  /\ fr.fn = "custom_timer"
  /\ pc = "c_end"
  /\ SleepOnlyClock
  /\ now - StartedAt > fr.total_seconds

\* C7: a custom timer or body scan whose duration is <= 0 rings no bell and
\* logs nothing.
C7_NonPositiveRejected ==
  (fr.fn \in {"custom_timer", "body_scan"} /\ fr.total_seconds <= 0) =>
    /\ Where("bell") = {}
    /\ logFile = logAtStart

\* C8: a box-breathing exercise with cycles, inhale, hold or exhale <= 0 rings
\* no bell and logs nothing.
C8_NonPositiveBoxRejected ==
  (/\ fr.fn = "box_breathing"
   /\ (fr.cycles <= 0 \/ fr.inhale <= 0 \/ fr.hold <= 0 \/ fr.exhale <= 0)) =>
    /\ Where("bell") = {}
    /\ logFile = logAtStart

\* The filled slots of a drawn progress line.
FilledSlots(l) == Cardinality({k \in DOMAIN l.bar : l.bar[k] = "#"})

\* C9: a drawn bar has 30 slots, the first floor(30 * elapsed / total) of them
\* filled and the rest unfilled, for a total > 0; from one redraw to the next
\* of one progress_bar call the elapsed time and the filled count do not decrease.
C9_BarIsFloor ==
  /\ [](line.kind = "bar" =>
          LET F == FilledSlots(line)
          IN  /\ line.total > 0
              /\ Len(line.bar) = 30
              /\ \A k \in 1..30 : line.bar[k] = IF k <= F THEN "#" ELSE "-"
              /\ F * line.total <= 30 * line.elapsed
              /\ 30 * line.elapsed < (F + 1) * line.total)
  /\ [][(line.kind = "bar" /\ line'.kind = "bar" /\ pb' = pb) =>
          /\ line'.elapsed >= line.elapsed
          /\ FilledSlots(line') >= FilledSlots(line)]_vars

\* C9, its case: a bar partly filled, 30 * elapsed / total being no whole number.
C9_Witness ==
  /\ line.kind = "bar"
  /\ FilledSlots(line) \in 1..29
  /\ (30 * line.elapsed) % line.total # 0

\* C10: the countdown of a drawn line is the remaining time cut to whole
\* seconds: minutes >= 0, seconds in 0..59, and 60 * minutes + seconds is the
\* greatest whole number of seconds not above total - elapsed.
C10_CountdownTruncates ==
  line.kind = "bar" =>
    LET remaining == line.total - line.elapsed
        shown == line.mins * 60 + line.secs
    IN  /\ line.mins >= 0
        /\ line.secs \in 0..59
        /\ shown * 10 <= remaining
        /\ remaining < (shown + 1) * 10

\* C10, its case: minutes left, and a remaining time that rounding to the
\* nearest second would have shown as 60 seconds.
C10_Witness ==
  /\ line.kind = "bar"
  /\ line.mins >= 1
  /\ line.secs = 59
  /\ (line.total - line.elapsed) % 10 >= 5

\* The box-breathing run in progress was given positive numbers.
PositiveBox ==
  /\ fr.fn = "box_breathing"
  /\ fr.cycles > 0 /\ fr.inhale > 0 /\ fr.hold > 0 /\ fr.exhale > 0

\* cycles * (inhale + 2 * hold + exhale), in seconds.
BoxSeconds == fr.cycles * (fr.inhale + 2 * fr.hold + fr.exhale)

\* The last line of the log file.
LastRow == logFile.lines[Len(logFile.lines)]

\* C11, as the claim has it: when the end bell of a box-breathing run with
\* positive numbers is due, cycles * (inhale + 2 * hold + exhale) seconds have
\* passed since the start bell returned.
C11_BoxElapsed ==
  (PositiveBox /\ pc = "b_end") => now - StartedAt = BoxSeconds * 10

\* C11, amended: when the end bell of a box-breathing run with positive numbers
\* is due, the time since the start bell returned is the 1.2 s pause plus
\* cycles * (inhale + 2 * hold + exhale) seconds, one second for each count
\* displayed; the row the run logs has that number of seconds / 60 as
\* duration_min.
C11_BoxElapsedAfterPause ==
  PositiveBox =>
    /\ pc = "b_end" =>
         /\ now - StartedAt = StartPause + BoxSeconds * 10
         /\ Cardinality(Where("count")) = BoxSeconds
    /\ pc = "b_input" =>
         /\ Rows(logFile) = Rows(logAtStart) + 1
         /\ LastRow.duration_min * 60 = BoxSeconds * 600
         /\ LastRow.duration_min * 60 = Cardinality(Where("count")) * 600

\* C11, its case: a complete run whose hold differs from its inhale and exhale.
C11_Witness ==
  /\ PositiveBox
  /\ pc = "b_input"
  /\ fr.hold # fr.inhale
  /\ fr.hold # fr.exhale

\* The label log_session is given by the session function named fn.
KindOf(fn) ==
  CASE fn = "guided_session" -> "Guided"
    [] fn = "custom_timer" -> "Custom timer"
    [] fn = "body_scan" -> "Body-scan"
    [] fn = "box_breathing" -> "Box breathing"

\* C12: the log file being absent when the program starts, the file, once it
\* exists, is the header line followed by one row per log_session call and
\* by nothing else; a step that changes the file keeps every
\* line it had (after the header it creates with the file) and adds one row at
\* the end, the row of the session then completing.
C12_AppendOnly ==
  /\ [](logAtInit = AbsentLog =>
          /\ ~logFile.exists => (logFile.lines = <<>> /\ completed = 0)
          /\ logFile.exists =>
               /\ logFile.lines[1] = Header
               /\ Len(logFile.lines) = completed + 1
               /\ \A n \in 2..Len(logFile.lines) :
                    logFile.lines[n].type[1] \in
                      {"Guided", "Custom timer", "Body-scan", "Box breathing"})
  /\ [][logFile' # logFile =>
          LET kept == IF logFile.exists THEN logFile.lines ELSE <<Header>>
          IN  /\ logFile'.exists
              /\ Len(logFile'.lines) = Len(kept) + 1
              /\ SubSeq(logFile'.lines, 1, Len(kept)) = kept
              /\ logFile'.lines[Len(kept) + 1].type[1] = KindOf(fr.fn)
              /\ logFile'.lines[Len(kept) + 1].timestamp = now \div 10]_vars

\* C12, its case: two sessions of different kinds logged to a file that was
\* absent when the program started.
C12_Witness ==
  /\ logAtInit = AbsentLog
  /\ completed = 2
  /\ Len(logFile.lines) = 3
  /\ logFile.lines[2].type # logFile.lines[3].type

\* C13: when the loop of a guided session has ended, every cue whose offset is
\* at or below the elapsed time of the tick that ended it has been put out.
C13_DueCuesBeforeCompleted ==
  (fr.fn = "guided_session" /\ pc = "g_end") =>
    \A j \in 0..(Len(ScriptOf(fr.script)) - 1) :
      OffsetDs(fr.script, j) <= fr.elapsed => j < fr.i

\* C14: the countdown on a line drawn in a guided session is the whole seconds
\* of total_seconds - (time of the redraw - start_time).
C14_NoDrift ==
  (fr.fn = "guided_session" /\ line.kind = "bar" /\ pb.active) =>
    LET drawnAt == pb.start + line.elapsed
        remaining == fr.total_seconds - (drawnAt - fr.start_time)
    IN  line.mins * 60 + line.secs = remaining \div 10

\* The bells of the current session but the first: the end bell.
EndBells == {b \in Where("bell") : \E a \in Where("bell") : a < b}

CountDown(ph, n) == [k \in 1..n |-> [e |-> "count", phase |-> ph, t |-> n + 1 - k]]

\* What cycle c of the run of frame f puts out: its header, then Inhale, Hold,
\* Exhale, Hold.
CycleEvents(f, c) ==
  <<[e |-> "cycle", c |-> c]>> \o CountDown(1, f.inhale) \o CountDown(2, f.hold)
    \o CountDown(3, f.exhale) \o CountDown(4, f.hold)

RECURSIVE BoxEvents(_, _)
\* Cycles 1..n of the run of frame f.
BoxEvents(f, n) == IF n = 0 THEN <<>> ELSE BoxEvents(f, n - 1) \o CycleEvents(f, n)

\* The cycle headers and counts the current session has put out.
Breathing == SelectSeq(events, LAMBDA x : x.e \in {"cycle", "count"})

\* C17: what a box-breathing run with positive numbers has put out between its
\* bells is always a beginning of: for each cycle 1..cycles, Inhale counted
\* from inhale down to 1, Hold from hold down to 1, Exhale from exhale down to
\* 1, Hold from hold down to 1; it is the whole of it once the loop is over,
\* and so when the end bell rings and the row is logged; every count displayed
\* is followed by a sleep of one second.
C17_PhaseOrder ==
  /\ [](PositiveBox =>
          LET want == BoxEvents(fr, fr.cycles)
          IN  /\ Len(Breathing) <= Len(want)
              /\ Breathing = SubSeq(want, 1, Len(Breathing))
              /\ (pc \in {"b_end", "b_msg", "b_log", "b_input"} \/ EndBells # {}
                  \/ logFile # logAtStart) => Breathing = want)
  /\ [][(/\ Len(events') = Len(events) + 1
         /\ events'[Len(events')].e = "count") => now' = now + 10]_vars

\* C17, its case: a complete run of several cycles whose hold is counted from 4
\* and whose inhale is not.
C17_Witness ==
  /\ PositiveBox
  /\ pc = "b_input"
  /\ fr.cycles >= 2
  /\ fr.hold = 4
  /\ fr.inhale # 4

\* The focus prompts the current session has put out.
Focus == SelectSeq(events, LAMBDA x : x.e = "focus")

\* C19: a body scan has announced its first idx parts, in list order and each
\* once; ten times the share of a part is the total duration; a prompt follows
\* the one before it by at least that share; the end bell rings after all ten
\* prompts and at least that share after the tenth; the one row is appended
\* after the end bell, with the duration_min the session was given.
C19_BodyScanOrder ==
  fr.fn = "body_scan" =>
    /\ fr.idx \in 0..NumParts
    /\ Len(Focus) = fr.idx
    /\ fr.per_part * 10 = fr.total_seconds
    /\ \A n \in 1..Len(Focus) : Focus[n].idx = n
    /\ \A n \in 1..(Len(Focus) - 1) : Focus[n + 1].at - Focus[n].at >= fr.per_part
    /\ \A b \in EndBells :
         /\ Len(Focus) = 10
         /\ events[b].at - Focus[10].at >= fr.per_part
         /\ \A n \in Where("focus") : n < b
    /\ Where("log") = {} => logFile = logAtStart
    /\ \A l \in Where("log") :
         /\ \E b \in EndBells : b < l
         /\ Rows(logFile) = Rows(logAtStart) + 1
         /\ LastRow.duration_min = fr.duration_min

\* C19, its case: a complete body scan of one minute, six seconds a part.
C19_Witness ==
  /\ fr.fn = "body_scan"
  /\ pc = "s_input"
  /\ fr.per_part = 60
  /\ Focus[10].at - Focus[1].at >= 540

\* What a countdown that runs to its end puts out, by kind.
Countdown == <<"bell", "draw", "clear", "bell", "msg", "log">>

\* What the current session has put out, by kind (redraws of the line counted
\* as one), the title line of custom_timer left out.
Shown ==
  LET seq == SelectSeq(events, LAMBDA x : x.e # "title")
  IN  [n \in DOMAIN seq |-> seq[n].e]

\* The start bell of the current guided session returned before the whole
\* duration had passed since start_time.
BellInTime == events[1].at - fr.start_time < fr.total_seconds

\* C15, as the claim has it: a complete run of guided_session with no cues and
\* a complete run of custom_timer have put out the same: start bell, redraws,
\* clearing, end bell, message, and one row with the duration_min given.
C15_EmptyScriptIsTimer ==
  ((pc = "g_input" /\ fr.script = "NO_CUES") \/ pc = "c_input") =>
    /\ Shown = Countdown
    /\ Rows(logFile) = Rows(logAtStart) + 1
    /\ LastRow.duration_min = fr.duration_min

\* C15, amended: the same, for a guided run whose start bell returned before
\* the whole duration had passed since start_time; one whose start bell did
\* not has put out the two bells, the message and the row, and no countdown.
C15_EmptyScriptIsTimerAfterBell ==
  /\ pc = "c_input" =>
       /\ Shown = Countdown
       /\ Rows(logFile) = Rows(logAtStart) + 1
       /\ LastRow.duration_min = fr.duration_min
  /\ (pc = "g_input" /\ fr.script = "NO_CUES") =>
       /\ Shown = IF BellInTime THEN Countdown ELSE <<"bell", "bell", "msg", "log">>
       /\ Where("cue") = {}
       /\ Rows(logFile) = Rows(logAtStart) + 1
       /\ LastRow.duration_min = fr.duration_min

\* C15, its case: a guided run with no cues that drew its countdown, complete
\* after a custom timer of the same duration.
C15_Witness ==
  /\ pc = "g_input"
  /\ fr.script = "NO_CUES"
  /\ BellInTime
  /\ Where("draw") # {}
  /\ Rows(logAtStart) >= 1
  /\ logAtStart.lines[Len(logAtStart.lines)].type = <<"Custom timer">>
  /\ logAtStart.lines[Len(logAtStart.lines)].duration_min = fr.duration_min
  /\ logAtStart.lines[Len(logAtStart.lines)].timestamp > 0

\* Where the engine is: no session, a session before the end of its loop, a
\* session whose loop is over, or the program over.
Phase ==
  CASE pc \in {"menu", "m5_input", "invalid"} -> "Idle"
    [] pc \in {"g_end", "g_msg", "g_log", "g_input", "c_end", "c_msg", "c_log", "c_input",
               "s_end", "s_msg", "s_log", "s_input", "b_end", "b_msg", "b_log", "b_input"}
         -> "Completed"
    [] pc = "exit" -> "Exit"
    [] OTHER -> "Running"

\* The session in progress was given a positive duration, or positive numbers.
PositiveSession ==
  \/ fr.fn \in {"guided_session", "custom_timer", "body_scan"} /\ fr.total_seconds > 0
  \/ PositiveBox

\* C18: in a run nobody interrupts, a session started with positive parameters
\* leads to its completion, the row logged and the function at its last
\* input(); the engine steps from Idle to Running only, from Running to
\* Completed only, and from Completed back to Idle only.
C18_SessionsComplete ==
  /\ (Phase = "Running" /\ PositiveSession) ~> (RunComplete /\ Where("log") # {})
  /\ [][/\ Phase = "Idle" => Phase' \in {"Idle", "Running", "Exit"}
        /\ Phase = "Running" => Phase' \in {"Running", "Completed"}
        /\ Phase = "Completed" => Phase' \in {"Completed", "Idle"}]_vars

\* C18, its case: a body scan of one minute in its ninth countdown.
C18_Witness ==
  /\ Phase = "Running"
  /\ PositiveSession
  /\ fr.fn = "body_scan"
  /\ fr.idx = 9
  /\ line.kind = "bar"
====
